---- MODULE Spec2Model ----
(***************************************************************************)
(* Issue status workflow and access control of the civic reporting server: *)
(* server/routes/issues.js, server/routes/admin.js, server/models/Issue.js *)
(* and server/models/Notification.js.                                      *)
(*                                                                         *)
(* The state is the Issue collection, the notification records inserted by *)
(* the latest request, and the latest response.  Every route handler is    *)
(* one action; its body is an operator from (actor, loaded issue, request  *)
(* body) to (HTTP code, saved issue, inserted notifications).              *)
(*                                                                         *)
(* now is the server clock in whole days and assignedOn[id] the day an     *)
(* issue's assignedAt was written (read only while assignedAt is set).     *)
(* loaded holds the PUT /:id/status requests that have loaded their issue  *)
(* and not yet saved it; a handler that runs in one step never leaves an   *)
(* entry there.                                                            *)
(***************************************************************************)
EXTENDS Integers, Sequences, FiniteSets, TLC

VARIABLES issues, created, res, now, assignedOn, loaded

vars == <<issues, created, res, now, assignedOn, loaded>>

----------------------------------------------------------------------------
(* Bounds *)

(* Array entries (status changes, comments, work proofs) an issue document *)
(* holds at most.                                                          *)
MaxEntries == 2

----------------------------------------------------------------------------
(* Enumerations of the schemas *)

Statuses ==
  {"pending", "in_progress", "pending_verification", "verified_solved",
   "escalated", "reopened"}

Roles == {"citizen", "low_admin", "high_admin"}

Priorities == {"medium", "urgent"}

Zones == {"ZA", "ZB"}

NoUser == "none"
NoDept == "unset"

(* Request inputs *)
IssueIds == {1}
Reporters == {"c1", "l1"}
RequestedDepts == {NoDept, "Roads"}
Files == {0, 1}

----------------------------------------------------------------------------
(* The user directory.  Users are created by registration and by the seed *)
(* script; the issue routes only read them.                                *)

Users == {"c1", "l1", "l2", "l3", "h1"}

role ==
  [u \in Users |->
     CASE u = "c1" -> "citizen"
       [] u \in {"l1", "l2", "l3"} -> "low_admin"
       [] OTHER -> "high_admin"]

assignedZones ==
  [u \in Users |->
     CASE u \in {"l1", "l2", "l3"} -> {"ZA"}
       [] u = "h1" -> {"ZA", "ZB"}
       [] OTHER -> {}]

department ==
  [u \in Users |->
     CASE u \in {"l1", "l3"} -> "PW"
       [] u = "h1" -> "Roads"
       [] OTHER -> NoDept]

isActive == [u \in Users |-> u # "l3"]

----------------------------------------------------------------------------
(* Issue model *)

NewIssue(zone, priority, reportedBy) ==
  [status |-> "pending",
   zone |-> zone,
   priority |-> priority,
   reportedBy |-> reportedBy,
   assignedTo |-> NoUser,
   assignedDepartment |-> NoDept,
   assignedAt |-> FALSE,
   resolvedAt |-> FALSE,
   verifiedAt |-> FALSE,
   escalatedAt |-> FALSE,
   workProof |-> <<>>,
   comments |-> <<>>,
   statusHistory |-> <<>>]

(* Mutant: the latest entry is overwritten instead of a new one pushed. *)
addStatusChange_overwrite(issue, newStatus, changedBy) ==
  [issue EXCEPT
     !.statusHistory =
       IF @ = <<>> THEN <<[status |-> newStatus]>>
       ELSE [@ EXCEPT ![Len(@)] = [status |-> newStatus]],
     !.status = newStatus]

addStatusChange(issue, newStatus, changedBy) ==
  [issue EXCEPT
     !.statusHistory = Append(@, [status |-> newStatus]),
     !.status = newStatus]

----------------------------------------------------------------------------
(* Workflow table and permission helpers of routes/issues.js *)

(* Mutant: a verified issue can no longer be reopened. *)
transitions_terminal ==
  [s \in Statuses |->
     CASE s = "pending" -> {"in_progress", "escalated"}
       [] s = "in_progress" -> {"pending_verification", "escalated"}
       [] s = "pending_verification" -> {"verified_solved", "reopened"}
       [] s = "verified_solved" -> {}
       [] s = "escalated" -> {"in_progress", "pending_verification"}
       [] s = "reopened" -> {"in_progress", "escalated"}]

transitions ==
  [s \in Statuses |->
     CASE s = "pending" -> {"in_progress", "escalated"}
       [] s = "in_progress" -> {"pending_verification", "escalated"}
       [] s = "pending_verification" -> {"verified_solved", "reopened"}
       [] s = "verified_solved" -> {"reopened"}
       [] s = "escalated" -> {"in_progress", "pending_verification"}
       [] s = "reopened" -> {"in_progress", "escalated"}]

(* Mutant: a high_admin may force any transition. *)
isValidStatusTransition_admin(currentStatus, newStatus, userRole) ==
  \/ userRole = "high_admin"
  \/ IF currentStatus \in DOMAIN transitions
       THEN newStatus \in transitions[currentStatus]
       ELSE FALSE

isValidStatusTransition(currentStatus, newStatus, userRole) ==
  IF currentStatus \in DOMAIN transitions
    THEN newStatus \in transitions[currentStatus]
    ELSE FALSE

canAssignIssue(user, issue) ==
  IF role[user] = "high_admin" THEN TRUE
  ELSE IF role[user] = "low_admin"
    THEN \/ issue.zone \in assignedZones[user]
         \/ department[user] = issue.assignedDepartment
  ELSE FALSE

(* Mutant: the reporter may request any status. *)
canUpdateStatus_anyStatus(user, issue, newStatus) ==
  IF role[user] = "high_admin" THEN TRUE
  ELSE IF role[user] = "low_admin"
    THEN \/ issue.assignedTo = user
         \/ issue.zone \in assignedZones[user]
  ELSE IF role[user] = "citizen"
    THEN issue.reportedBy = user
  ELSE FALSE

canUpdateStatus(user, issue, newStatus) ==
  IF role[user] = "high_admin" THEN TRUE
  ELSE IF role[user] = "low_admin"
    THEN \/ issue.assignedTo = user
         \/ issue.zone \in assignedZones[user]
  ELSE IF role[user] = "citizen"
    THEN /\ issue.reportedBy = user
         /\ newStatus \in {"pending_verification", "reopened"}
  ELSE FALSE

hasIssueAccess(user, issue) ==
  IF role[user] = "high_admin" THEN TRUE
  ELSE IF role[user] = "low_admin"
    THEN \/ issue.assignedTo = user
         \/ issue.zone \in assignedZones[user]
  ELSE IF role[user] = "citizen"
    THEN issue.reportedBy = user
  ELSE FALSE

(* Mutant: the zone rule of hasIssueAccess applied to work proof. *)
canAddWorkProof_zone(user, issue) ==
  IF role[user] = "high_admin" THEN TRUE
  ELSE IF role[user] = "low_admin"
    THEN \/ issue.assignedTo = user
         \/ issue.zone \in assignedZones[user]
  ELSE FALSE

canAddWorkProof(user, issue) ==
  IF role[user] = "high_admin" THEN TRUE
  ELSE IF role[user] = "low_admin"
    THEN issue.assignedTo = user
  ELSE FALSE

----------------------------------------------------------------------------
(* Notification records.  A record inserted without a priority gets the   *)
(* schema default.                                                         *)

DefaultPriority == "medium"

Notification(type, recipient, relatedIssue, priority) ==
  [type |-> type, recipient |-> recipient, relatedIssue |-> relatedIssue,
   priority |-> priority, isRead |-> FALSE, readAt |-> FALSE]

(* notificationSchema.methods.markAsRead *)
markAsRead(notification) ==
  [notification EXCEPT !.isRead = TRUE, !.readAt = TRUE]

UserOrder == <<"c1", "l1", "l2", "l3", "h1">>

UsersWithRole(rs) == SelectSeq(UserOrder, LAMBDA u : role[u] \in rs)

RECURSIVE MapRecipients(_, _, _, _)
MapRecipients(recipients, type, relatedIssue, priority) ==
  IF recipients = <<>> THEN <<>>
  ELSE <<Notification(type, Head(recipients), relatedIssue, priority)>>
       \o MapRecipients(Tail(recipients), type, relatedIssue, priority)

(* createNotification(notificationData, recipient, issue): recipient is   *)
(* "admin", "participants" or a user id.                                   *)
createNotification(type, relatedIssue, priority, recipient, issue) ==
  IF recipient = "admin"
    THEN MapRecipients(UsersWithRole({"low_admin", "high_admin"}),
                       type, relatedIssue, priority)
  ELSE IF recipient = "participants"
    THEN MapRecipients(
           <<issue.reportedBy>> \o
             (IF issue.assignedTo # NoUser THEN <<issue.assignedTo>> ELSE <<>>),
           type, relatedIssue, priority)
  ELSE <<Notification(type, recipient, relatedIssue, priority)>>

UrgentPriority(issue) == IF issue.priority = "urgent" THEN "high" ELSE "medium"

(* Mutant: a verified issue is announced to its assignee as well. *)
handleStatusChangeNotifications_assignee(issue, id, newStatus) ==
  CASE newStatus = "in_progress" ->
         <<Notification("issue_updated", issue.reportedBy, id, DefaultPriority)>>
    [] newStatus = "pending_verification" ->
         MapRecipients(UsersWithRole({"high_admin"}),
                       "verification_required", id, "high")
         \o <<Notification("verification_required", issue.reportedBy, id,
                           DefaultPriority)>>
    [] newStatus = "verified_solved" ->
         <<Notification("issue_resolved", issue.reportedBy, id, DefaultPriority)>>
         \o (IF issue.assignedTo # NoUser
               THEN <<Notification("issue_resolved", issue.assignedTo, id,
                                   DefaultPriority)>>
               ELSE <<>>)
    [] newStatus = "escalated" ->
         MapRecipients(UsersWithRole({"high_admin"}), "issue_escalated", id, "high")
    [] newStatus = "reopened" ->
         IF issue.assignedTo # NoUser
           THEN <<Notification("issue_reopened", issue.assignedTo, id, "high")>>
           ELSE <<>>
    [] OTHER -> <<>>

handleStatusChangeNotifications(issue, id, newStatus) ==
  CASE newStatus = "in_progress" ->
         <<Notification("issue_updated", issue.reportedBy, id, DefaultPriority)>>
    [] newStatus = "pending_verification" ->
         MapRecipients(UsersWithRole({"high_admin"}),
                       "verification_required", id, "high")
         \o <<Notification("verification_required", issue.reportedBy, id,
                           DefaultPriority)>>
    [] newStatus = "verified_solved" ->
         <<Notification("issue_resolved", issue.reportedBy, id, DefaultPriority)>>
    [] newStatus = "escalated" ->
         MapRecipients(UsersWithRole({"high_admin"}), "issue_escalated", id, "high")
    [] newStatus = "reopened" ->
         IF issue.assignedTo # NoUser
           THEN <<Notification("issue_reopened", issue.assignedTo, id, "high")>>
           ELSE <<>>
    [] OTHER -> <<>>

----------------------------------------------------------------------------
(* Route middleware (server/middleware/auth.js) *)

requireRole(roles, user) == role[user] \in roles

requireHighAdmin(user) == role[user] = "high_admin"

(* Mutant: the assign route open to every role. *)
AssignRoles_all == {"citizen", "low_admin", "high_admin"}

AssignRoles == {"low_admin", "high_admin"}

WorkProofRoles == {"low_admin", "high_admin"}

----------------------------------------------------------------------------
(* Handler bodies: the response code, the issue as saved (the loaded one  *)
(* when nothing is saved) and the notifications inserted.                  *)

Response(code, issue, notes) == [code |-> code, issue |-> issue, notes |-> notes]

(* Active low_admins of the zone: the candidates of User.findOne.  The    *)
(* sort key assignedIssues is not a field of the User schema, so every    *)
(* candidate compares equal and the one returned is any of them.          *)
(* (Mutant: the isActive filter dropped.) *)
EligibleAdmins_inactive(zone) ==
  {u \in Users : role[u] = "low_admin" /\ zone \in assignedZones[u]}

EligibleAdmins(zone) ==
  {u \in Users : role[u] = "low_admin" /\ zone \in assignedZones[u] /\ isActive[u]}

(* Mutant: without a candidate the issue falls to the high_admin. *)
autoAssignIssue_fallback(issue, id, admin) ==
  LET chosen == IF admin # NoUser THEN admin ELSE "h1"
  IN Response(200,
       [issue EXCEPT !.assignedTo = chosen,
                     !.assignedDepartment = department[chosen],
                     !.assignedAt = TRUE,
                     !.status = "in_progress"],
       createNotification("issue_assigned", id, UrgentPriority(issue),
                          chosen, issue))

(* Mutant: the assignee is set without the assignment timestamp. *)
autoAssignIssue_noStamp(issue, id, admin) ==
  IF admin # NoUser
    THEN Response(200,
           [issue EXCEPT !.assignedTo = admin,
                         !.assignedDepartment = department[admin],
                         !.status = "in_progress"],
           createNotification("issue_assigned", id, UrgentPriority(issue),
                              admin, issue))
    ELSE Response(200, issue, <<>>)

autoAssignIssue(issue, id, admin) ==
  IF admin # NoUser
    THEN Response(200,
           [issue EXCEPT !.assignedTo = admin,
                         !.assignedDepartment = department[admin],
                         !.assignedAt = TRUE,
                         !.status = "in_progress"],
           createNotification("issue_assigned", id, UrgentPriority(issue),
                              admin, issue))
    ELSE Response(200, issue, <<>>)

postIssue(user, id, zone, priority, admin) ==
  LET assigned == autoAssignIssue(NewIssue(zone, priority, user), id, admin)
  IN Response(201, assigned.issue,
       assigned.notes
       \o createNotification("issue_created", id,
            IF priority = "urgent" THEN "high" ELSE "medium", "admin",
            assigned.issue))

(* Mutant: the role of the assigned user is not verified. *)
putAssign_anyUser(user, issue, id, assignedTo, assignedDepartment) ==
  IF role[user] = "low_admin" /\ ~canAssignIssue(user, issue)
    THEN Response(403, issue, <<>>)
  ELSE IF assignedTo \notin Users
    THEN Response(400, issue, <<>>)
  ELSE LET updated ==
             addStatusChange(
               [issue EXCEPT
                  !.assignedTo = assignedTo,
                  !.assignedDepartment =
                    IF assignedDepartment # NoDept THEN assignedDepartment
                    ELSE department[assignedTo],
                  !.assignedAt = TRUE],
               "in_progress", user)
       IN Response(200, updated,
            createNotification("issue_assigned", id, UrgentPriority(updated),
                               assignedTo, updated))

putAssign(user, issue, id, assignedTo, assignedDepartment) ==
  IF role[user] = "low_admin" /\ ~canAssignIssue(user, issue)
    THEN Response(403, issue, <<>>)
  ELSE IF assignedTo \notin Users \/ role[assignedTo] \notin {"low_admin", "high_admin"}
    THEN Response(400, issue, <<>>)
  ELSE LET updated ==
             addStatusChange(
               [issue EXCEPT
                  !.assignedTo = assignedTo,
                  !.assignedDepartment =
                    IF assignedDepartment # NoDept THEN assignedDepartment
                    ELSE department[assignedTo],
                  !.assignedAt = TRUE],
               "in_progress", user)
       IN Response(200, updated,
            createNotification("issue_assigned", id, UrgentPriority(updated),
                               assignedTo, updated))

(* Mutant: the status change is applied before the transition is checked. *)
putStatus_early(user, issue, id, status) ==
  IF ~canUpdateStatus(user, issue, status)
    THEN Response(403, issue, <<>>)
  ELSE LET changed == addStatusChange(issue, status, user)
       IN IF ~isValidStatusTransition(issue.status, status, role[user])
            THEN Response(400, changed, <<>>)
            ELSE Response(200, changed,
                          handleStatusChangeNotifications(changed, id, status))

putStatus(user, issue, id, status) ==
  IF ~canUpdateStatus(user, issue, status)
    THEN Response(403, issue, <<>>)
  ELSE IF ~isValidStatusTransition(issue.status, status, role[user])
    THEN Response(400, issue, <<>>)
  ELSE LET changed == addStatusChange(issue, status, user)
           stamped ==
             IF status = "pending_verification"
               THEN [changed EXCEPT !.resolvedAt = TRUE]
             ELSE IF status = "verified_solved"
               THEN [changed EXCEPT !.verifiedAt = TRUE]
             ELSE IF status = "escalated"
               THEN [changed EXCEPT !.escalatedAt = TRUE]
             ELSE changed
       IN Response(200, stamped,
                   handleStatusChangeNotifications(stamped, id, status))

(* Mutant: the requested flag is stored as sent. *)
postComment_asSent(user, issue, id, isInternal) ==
  IF ~hasIssueAccess(user, issue)
    THEN Response(403, issue, <<>>)
  ELSE LET commented ==
             [issue EXCEPT !.comments =
                Append(@, [author |-> user, isInternal |-> isInternal])]
       IN Response(200, commented,
            createNotification("comment_added", id, DefaultPriority,
                               "participants", commented))

postComment(user, issue, id, isInternal) ==
  IF ~hasIssueAccess(user, issue)
    THEN Response(403, issue, <<>>)
  ELSE LET commented ==
             [issue EXCEPT !.comments =
                Append(@, [author |-> user,
                           isInternal |-> isInternal /\
                             role[user] \in {"low_admin", "high_admin"}])]
       IN Response(200, commented,
            createNotification("comment_added", id, DefaultPriority,
                               "participants", commented))

RECURSIVE Uploads(_, _)
Uploads(n, user) ==
  IF n = 0 THEN <<>> ELSE <<[uploadedBy |-> user]>> \o Uploads(n - 1, user)

postWorkProof(user, issue, files) ==
  IF ~canAddWorkProof(user, issue)
    THEN Response(403, issue, <<>>)
  ELSE Response(200,
         [issue EXCEPT !.workProof = @ \o Uploads(files, user)], <<>>)

(* Mutant: the escalation is recorded without its timestamp. *)
escalateIssue_noStamp(user, issue, id) ==
  IF issue.status = "escalated"
    THEN Response(400, issue, <<>>)
  ELSE LET escalated == addStatusChange(issue, "escalated", user)
       IN Response(200, escalated,
            (IF escalated.assignedTo # NoUser
               THEN <<Notification("issue_escalated", escalated.assignedTo, id,
                                   "high")>>
               ELSE <<>>)
            \o <<Notification("issue_escalated", escalated.reportedBy, id,
                              "high")>>)

escalateIssue(user, issue, id) ==
  IF issue.status = "escalated"
    THEN Response(400, issue, <<>>)
  ELSE LET escalated ==
             [addStatusChange(issue, "escalated", user)
                EXCEPT !.escalatedAt = TRUE]
       IN Response(200, escalated,
            (IF escalated.assignedTo # NoUser
               THEN <<Notification("issue_escalated", escalated.assignedTo, id,
                                   "high")>>
               ELSE <<>>)
            \o <<Notification("issue_escalated", escalated.reportedBy, id,
                              "high")>>)

reassignIssue(user, issue, id, newAssigneeId) ==
  IF newAssigneeId \notin Users
       \/ role[newAssigneeId] \notin {"low_admin", "high_admin"}
    THEN Response(400, issue, <<>>)
  ELSE LET previousAssignee == issue.assignedTo
           updated ==
             addStatusChange(
               [issue EXCEPT !.assignedTo = newAssigneeId,
                             !.assignedDepartment = department[newAssigneeId],
                             !.assignedAt = TRUE],
               "in_progress", user)
       IN Response(200, updated,
            <<Notification("issue_assigned", newAssigneeId, id,
                           UrgentPriority(updated))>>
            \o (IF previousAssignee # NoUser /\ previousAssignee # newAssigneeId
                  THEN <<Notification("issue_updated", previousAssignee, id,
                                      "medium")>>
                  ELSE <<>>))

----------------------------------------------------------------------------
(* Requests.  A request names its actor (req.user, supplied by            *)
(* authenticateToken), the issue id and the validated body.                *)

(* The ids a request can name as assignee: the users and a well-formed id  *)
(* that User.findById does not find.                                       *)
Stranger == "x1"

Targets == Users \cup {Stranger}

Slots == {"A", "B"}

NoRequest == [user |-> NoUser]

Init ==
  /\ issues = <<>>
  /\ created = <<>>
  /\ res = [op |-> "none", user |-> NoUser, code |-> 0]
  /\ now = 0
  /\ assignedOn = <<>>
  /\ loaded = [slot \in Slots |-> NoRequest]

WithinBounds(issue) ==
  Len(issue.statusHistory) + Len(issue.comments) + Len(issue.workProof)
    <= MaxEntries

(* The handler returned before loading or saving anything. *)
Deny(op, user, code) ==
  /\ res' = [op |-> op, user |-> user, code |-> code]
  /\ created' = <<>>
  /\ UNCHANGED <<issues, now, assignedOn, loaded>>

(* The handler ran on the loaded issue: r.issue is what the collection    *)
(* holds afterwards, r.notes what was inserted into Notification.          *)
Reply(op, user, id, r) ==
  /\ WithinBounds(r.issue)
  /\ issues' = [issues EXCEPT ![id] = r.issue]
  /\ created' = r.notes
  /\ res' = [op |-> op, user |-> user, code |-> r.code]
  /\ assignedOn' = IF op \in {"assign", "reassign"} /\ r.code = 200
                     THEN [assignedOn EXCEPT ![id] = now]
                     ELSE assignedOn
  /\ UNCHANGED <<now, loaded>>

(* POST /api/issues *)
PostIssue(user, zone, priority) ==
  /\ Len(issues) < Cardinality(IssueIds)
  /\ \E admin \in (IF EligibleAdmins(zone) = {} THEN {NoUser}
                   ELSE EligibleAdmins(zone)) :
       LET id == Len(issues) + 1
           r == postIssue(user, id, zone, priority, admin)
       IN /\ issues' = Append(issues, r.issue)
          /\ created' = r.notes
          /\ res' = [op |-> "create", user |-> user, code |-> r.code]
          /\ assignedOn' = Append(assignedOn, now)
          /\ UNCHANGED <<now, loaded>>

(* PUT /api/issues/:id/assign *)
PutAssign(user, id, assignedTo, assignedDepartment) ==
  IF ~requireRole(AssignRoles, user) THEN Deny("assign", user, 403)
  ELSE IF id \notin DOMAIN issues THEN Deny("assign", user, 404)
  ELSE Reply("assign", user, id,
             putAssign(user, issues[id], id, assignedTo, assignedDepartment))

(* PUT /api/issues/:id/status *)
PutStatus(user, id, status) ==
  IF id \notin DOMAIN issues THEN Deny("status", user, 404)
  ELSE Reply("status", user, id, putStatus(user, issues[id], id, status))

(* POST /api/issues/:id/comments *)
PostComment(user, id, isInternal) ==
  IF id \notin DOMAIN issues THEN Deny("comment", user, 404)
  ELSE Reply("comment", user, id, postComment(user, issues[id], id, isInternal))

(* POST /api/issues/:id/work-proof *)
PostWorkProof(user, id, files) ==
  IF ~requireRole(WorkProofRoles, user) THEN Deny("work-proof", user, 403)
  ELSE IF id \notin DOMAIN issues THEN Deny("work-proof", user, 404)
  ELSE Reply("work-proof", user, id, postWorkProof(user, issues[id], files))

(* POST /api/admin/escalate-issue *)
EscalateIssue(user, id) ==
  IF ~requireHighAdmin(user) THEN Deny("escalate", user, 403)
  ELSE IF id \notin DOMAIN issues THEN Deny("escalate", user, 404)
  ELSE Reply("escalate", user, id, escalateIssue(user, issues[id], id))

(* POST /api/admin/reassign-issue *)
ReassignIssue(user, id, newAssigneeId) ==
  IF ~requireHighAdmin(user) THEN Deny("reassign", user, 403)
  ELSE IF id \notin DOMAIN issues THEN Deny("reassign", user, 404)
  ELSE Reply("reassign", user, id,
             reassignIssue(user, issues[id], id, newAssigneeId))

Next ==
  \/ \E user \in Reporters, zone \in Zones, priority \in Priorities :
       PostIssue(user, zone, priority)
  \/ \E user \in Users, id \in IssueIds, assignedTo \in Targets,
        assignedDepartment \in RequestedDepts :
       PutAssign(user, id, assignedTo, assignedDepartment)
  \/ \E user \in Users, id \in IssueIds, status \in Statuses :
       PutStatus(user, id, status)
  \/ \E user \in Users, id \in IssueIds, isInternal \in BOOLEAN :
       PostComment(user, id, isInternal)
  \/ \E user \in Users, id \in IssueIds, files \in Files :
       PostWorkProof(user, id, files)
  \/ \E user \in Users, id \in IssueIds : EscalateIssue(user, id)
  \/ \E user \in Users, id \in IssueIds, newAssigneeId \in Targets :
       ReassignIssue(user, id, newAssigneeId)

Spec == Init /\ [][Next]_vars

----------------------------------------------------------------------------
(* The router under load: POST / on a collection that grows to two issues, *)
(* with PUT /:id/status moving the stored issues between creations.        *)

RouterIssueIds == {1, 2}

RouterPostIssue(user, zone, priority) ==
  /\ Len(issues) < Cardinality(RouterIssueIds)
  /\ \E admin \in (IF EligibleAdmins(zone) = {} THEN {NoUser}
                   ELSE EligibleAdmins(zone)) :
       LET id == Len(issues) + 1
           r == postIssue(user, id, zone, priority, admin)
       IN /\ issues' = Append(issues, r.issue)
          /\ created' = r.notes
          /\ res' = [op |-> "create", user |-> user, code |-> r.code]
          /\ assignedOn' = Append(assignedOn, now)
          /\ UNCHANGED <<now, loaded>>

RouterNext ==
  \/ \E user \in Reporters, zone \in Zones, priority \in Priorities :
       RouterPostIssue(user, zone, priority)
  \/ \E user \in Users, id \in RouterIssueIds, status \in Statuses :
       PutStatus(user, id, status)

SpecRouter == Init /\ [][RouterNext]_vars

----------------------------------------------------------------------------
(* The status workflow on its own: POST / and PUT /:id/status, with a      *)
(* history long enough for an unassigned issue to be reopened.             *)

MaxHistory == 3

DispatchPutStatus(user, id, status) ==
  IF id \notin DOMAIN issues THEN Deny("status", user, 404)
  ELSE LET r == putStatus(user, issues[id], id, status)
       IN /\ Len(r.issue.statusHistory) <= MaxHistory
          /\ issues' = [issues EXCEPT ![id] = r.issue]
          /\ created' = r.notes
          /\ res' = [op |-> "status", user |-> user, code |-> r.code]
          /\ UNCHANGED <<now, assignedOn, loaded>>

DispatchNext ==
  \/ \E user \in Reporters, zone \in Zones, priority \in Priorities :
       PostIssue(user, zone, priority)
  \/ \E user \in Users, id \in IssueIds, status \in Statuses :
       DispatchPutStatus(user, id, status)

SpecDispatch == Init /\ [][DispatchNext]_vars

----------------------------------------------------------------------------
(* Overdue issues: the clock advances while nobody sends an escalate or a  *)
(* status request; high_admins open the dashboard, whose query lists the   *)
(* issues requiring attention.                                             *)

MaxDays == 6

EscalationDays == 5

(* The virtual daysSinceAssignment, read while assignedAt is set. *)
daysSinceAssignment(assignedDay, today) == today - assignedDay

(* issueSchema.methods.shouldEscalate; null && ... is falsy. *)
shouldEscalate(issue, assignedDay, today) ==
  IF issue.status \in {"pending", "in_progress"}
    THEN /\ issue.assignedAt
         /\ daysSinceAssignment(assignedDay, today) >= EscalationDays
    ELSE FALSE

issuesRequiringAttention ==
  {id \in DOMAIN issues :
     \/ issues[id].status = "escalated"
     \/ /\ issues[id].status \in {"pending", "in_progress"}
        /\ issues[id].assignedAt
        /\ now - assignedOn[id] >= EscalationDays}

(* GET /api/admin/dashboard: a read; nothing is saved. *)
GetDashboard(user) ==
  IF ~requireHighAdmin(user) THEN Deny("dashboard", user, 403)
  ELSE /\ res' = [op |-> "dashboard", user |-> user, code |-> 200,
                  attention |-> issuesRequiringAttention]
       /\ created' = <<>>
       /\ UNCHANGED <<issues, now, assignedOn, loaded>>

(* A day passes. *)
Tick ==
  /\ now < MaxDays
  /\ now' = now + 1
  /\ UNCHANGED <<issues, created, res, assignedOn, loaded>>

OverdueNext ==
  \/ \E user \in Reporters, zone \in Zones, priority \in Priorities :
       PostIssue(user, zone, priority)
  \/ \E user \in Users : GetDashboard(user)
  \/ Tick

SpecOverdue ==
  /\ Init /\ [][OverdueNext]_vars
  /\ WF_vars(Tick)
  /\ WF_vars(\E user \in Users : GetDashboard(user))

----------------------------------------------------------------------------
(* Concurrent status updates.  PUT /:id/status awaits Issue.findById,      *)
(* checks the loaded document, changes it in memory and awaits             *)
(* issue.save(); another request can run between the two awaits.  The      *)
(* schemas set no optimisticConcurrency, so save() sends the modified      *)
(* paths of the in-memory document ($set of status and of the timestamp,   *)
(* $push of the new statusHistory entry) without comparing versions.       *)

(* Mutant: save() refuses to write over a document changed since the load. *)
saveStatus_versioned(stored, doc) ==
  IF Len(stored.statusHistory) + 1 # Len(doc.statusHistory)
    THEN stored
    ELSE doc

saveStatus(stored, doc) ==
  [stored EXCEPT
     !.status = doc.status,
     !.statusHistory = Append(@, doc.statusHistory[Len(doc.statusHistory)]),
     !.resolvedAt = @ \/ doc.status = "pending_verification",
     !.verifiedAt = @ \/ doc.status = "verified_solved",
     !.escalatedAt = @ \/ doc.status = "escalated"]

(* The handler up to its save: the 404, 403 and 400 returns, or the        *)
(* changed in-memory document waiting to be saved.                         *)
LoadStatus(slot, user, id, status) ==
  /\ loaded[slot] = NoRequest
  /\ IF id \notin DOMAIN issues THEN Deny("status", user, 404)
     ELSE LET r == putStatus(user, issues[id], id, status)
          IN IF r.code # 200 THEN Deny("status", user, r.code)
             ELSE /\ Len(r.issue.statusHistory) <= MaxHistory
                  /\ loaded' = [loaded EXCEPT ![slot] =
                                  [user |-> user, id |-> id, status |-> status,
                                   issue |-> r.issue, notes |-> r.notes]]
                  /\ UNCHANGED <<issues, created, res, now, assignedOn>>

(* The handler from its save on: the write, the notifications, the 200. *)
SaveStatus(slot) ==
  /\ loaded[slot] # NoRequest
  /\ LET q == loaded[slot]
         saved == saveStatus(issues[q.id], q.issue)
     IN /\ Len(saved.statusHistory) <= MaxHistory
        /\ issues' = [issues EXCEPT ![q.id] = saved]
        /\ created' = q.notes
        /\ res' = [op |-> "status", user |-> q.user, code |-> 200]
        /\ loaded' = [loaded EXCEPT ![slot] = NoRequest]
        /\ UNCHANGED <<now, assignedOn>>

ConcurrentNext ==
  \/ \E user \in Reporters, zone \in Zones, priority \in Priorities :
       PostIssue(user, zone, priority)
  \/ \E slot \in Slots, user \in Users, id \in IssueIds, status \in Statuses :
       LoadStatus(slot, user, id, status)
  \/ \E slot \in Slots : SaveStatus(slot)

SpecConcurrent == Init /\ [][ConcurrentNext]_vars

----------------------------------------------------------------------------
(* The notification routes (server/routes/notifications.js), acting on the *)
(* documents the latest issue request inserted: created[n] is the stored   *)
(* document, n its id.  A handler body yields the response code and the    *)
(* documents as stored afterwards.                                         *)

Outcome(code, notes) == [code |-> code, notes |-> notes]

Without(notes, n) ==
  [k \in 1..(Len(notes) - 1) |-> IF k < n THEN notes[k] ELSE notes[k + 1]]

(* Mutant: the ownership check is skipped. *)
putRead_anyone(user, notes, n) ==
  IF n \notin DOMAIN notes THEN Outcome(404, notes)
  ELSE Outcome(200, [notes EXCEPT ![n] = markAsRead(@)])

putRead(user, notes, n) ==
  IF n \notin DOMAIN notes THEN Outcome(404, notes)
  ELSE IF notes[n].recipient # user THEN Outcome(403, notes)
  ELSE Outcome(200, [notes EXCEPT ![n] = markAsRead(@)])

putReadAll(user, notes) ==
  Outcome(200,
    [k \in DOMAIN notes |->
       IF notes[k].recipient = user /\ ~notes[k].isRead
         THEN [notes[k] EXCEPT !.isRead = TRUE, !.readAt = TRUE]
         ELSE notes[k]])

deleteNotification(user, notes, n) ==
  IF n \notin DOMAIN notes THEN Outcome(404, notes)
  ELSE IF notes[n].recipient # user THEN Outcome(403, notes)
  ELSE Outcome(200, Without(notes, n))

deleteNotifications(user, notes) ==
  Outcome(200, SelectSeq(notes, LAMBDA x : x.recipient # user))

Answer(op, user, r) ==
  /\ created' = r.notes
  /\ res' = [op |-> op, user |-> user, code |-> r.code]
  /\ UNCHANGED <<issues, now, assignedOn, loaded>>

(* PUT /api/notifications/:id/read *)
PutRead(user, n) == Answer("read", user, putRead(user, created, n))

(* PUT /api/notifications/read-all *)
PutReadAll(user) == Answer("read-all", user, putReadAll(user, created))

(* DELETE /api/notifications/:id *)
DeleteNotification(user, n) ==
  Answer("delete", user, deleteNotification(user, created, n))

(* DELETE /api/notifications *)
DeleteNotifications(user) ==
  Answer("delete-all", user, deleteNotifications(user, created))

(* The ids of the stored documents and one that findById does not find. *)
NotificationIds == 1..(Len(created) + 1)

InboxNext ==
  \/ \E user \in Reporters, zone \in Zones, priority \in Priorities :
       PostIssue(user, zone, priority)
  \/ \E user \in Users, n \in NotificationIds : PutRead(user, n)
  \/ \E user \in Users : PutReadAll(user)
  \/ \E user \in Users, n \in NotificationIds : DeleteNotification(user, n)
  \/ \E user \in Users : DeleteNotifications(user)

SpecInbox == Init /\ [][InboxNext]_vars

----------------------------------------------------------------------------
(* Reading issues: GET /api/issues/:id and the role filter of the          *)
(* GET /api/issues listing, next to the requests that change who an issue  *)
(* belongs to.                                                             *)

(* Mutant: a low_admin sees an issue only through the department. *)
getIssue_department(user, issue) ==
  IF role[user] = "citizen" /\ issue.reportedBy # user THEN 403
  ELSE IF role[user] = "low_admin"
            /\ ~(issue.assignedDepartment = department[user])
    THEN 403
  ELSE 200

(* The access check of GET /:id: the response code.  A missing department  *)
(* on both sides compares equal (undefined === undefined).                 *)
getIssue(user, issue) ==
  IF role[user] = "citizen" /\ issue.reportedBy # user THEN 403
  ELSE IF role[user] = "low_admin"
            /\ ~(\/ issue.assignedTo = user
                 \/ issue.assignedDepartment = department[user]
                 \/ issue.zone \in assignedZones[user])
    THEN 403
  ELSE 200

(* The role filter of GET /: whether the issue matches.  For a low_admin   *)
(* without a department the clause { assignedDepartment: undefined } is    *)
(* either dropped from the query (stripped: it then matches every issue)   *)
(* or matches the issues without a department.                             *)
roleFilter(user, issue, stripped) ==
  IF role[user] = "citizen" THEN issue.reportedBy = user
  ELSE IF role[user] = "low_admin"
    THEN \/ issue.assignedTo = user
         \/ IF department[user] = NoDept
              THEN stripped \/ issue.assignedDepartment = NoDept
              ELSE issue.assignedDepartment = department[user]
         \/ issue.zone \in assignedZones[user]
  ELSE TRUE

(* GET /api/issues/:id *)
GetIssue(user, id) ==
  IF id \notin DOMAIN issues THEN Deny("get", user, 404)
  ELSE Deny("get", user, getIssue(user, issues[id]))

(* GET /api/issues *)
GetIssues(user) ==
  \E stripped \in BOOLEAN :
    /\ res' = [op |-> "list", user |-> user, code |-> 200,
               ids |-> {id \in DOMAIN issues :
                          roleFilter(user, issues[id], stripped)}]
    /\ created' = <<>>
    /\ UNCHANGED <<issues, now, assignedOn, loaded>>

AccessNext ==
  \/ \E user \in Reporters, zone \in Zones, priority \in Priorities :
       PostIssue(user, zone, priority)
  \/ \E user \in Users, id \in IssueIds, assignedTo \in Targets,
        assignedDepartment \in RequestedDepts :
       PutAssign(user, id, assignedTo, assignedDepartment)
  \/ \E user \in Users, id \in IssueIds : GetIssue(user, id)
  \/ \E user \in Users : GetIssues(user)

SpecAccess == Init /\ [][AccessNext]_vars

----------------------------------------------------------------------------
(* Claims *)

Last(seq) == seq[Len(seq)]

Admins == {"low_admin", "high_admin"}

(* The edge table as the specification states it (section 4.1). *)
EdgeTable ==
  {<<"pending", "in_progress">>, <<"pending", "escalated">>,
   <<"in_progress", "pending_verification">>, <<"in_progress", "escalated">>,
   <<"pending_verification", "verified_solved">>,
   <<"pending_verification", "reopened">>,
   <<"verified_solved", "reopened">>,
   <<"escalated", "in_progress">>, <<"escalated", "pending_verification">>,
   <<"reopened", "in_progress">>, <<"reopened", "escalated">>}

(* C1: for the status of every stored issue, every requested status and   *)
(* every role, isValidStatusTransition is true iff the pair is an edge of  *)
(* the fixed table; the role never changes the result.  (Each of the six   *)
(* statuses is the status of some reachable issue.)                        *)
C1_TransitionTable ==
  \A id \in DOMAIN issues, new \in Statuses, r \in Roles :
    isValidStatusTransition(issues[id].status, new, r)
      <=> <<issues[id].status, new>> \in EdgeTable

(* A status request passed the transition check. *)
C1_Witness ==
  /\ res.op = "status" /\ res.code = 200
  /\ issues[1].status = "pending_verification"

(* C2: every change of an issue's status, by whichever operation, goes    *)
(* along an edge of the table.                                             *)
C2_OnlyTableEdges ==
  [][\A id \in DOMAIN issues :
       issues'[id].status # issues[id].status
         => <<issues[id].status, issues'[id].status>> \in EdgeTable]_vars

(* C3: in every reachable state the status equals the status of the last  *)
(* statusHistory entry (an issue without history is in the initial status).*)
C3_StatusIsLastHistory ==
  \A id \in DOMAIN issues :
    LET h == issues[id].statusHistory
    IN IF h = <<>> THEN issues[id].status = "pending"
       ELSE Last(h).status = issues[id].status

(* C4: a rejected PUT /:id/status (not found, permission denied, invalid   *)
(* transition) leaves the issue unchanged and creates no notification.     *)
C4_RejectedStatusNoMutation ==
  [][(res'.op = "status" /\ res'.code # 200)
       => (issues' = issues /\ created' = <<>>)]_vars

(* A status request on an existing issue was refused by the table. *)
C4_Witness ==
  /\ res.op = "status" /\ res.code = 400
  /\ Len(issues) = 1 /\ issues[1].statusHistory # <<>>

(* C5: a low_admin outside the issue's zone who is not its assignee is    *)
(* denied assign, status update, comment and work proof, whatever the      *)
(* departments are.                                                        *)
C5_OutsiderDenied ==
  \A id \in DOMAIN issues, u \in Users :
    (/\ role[u] = "low_admin"
     /\ issues[id].zone \notin assignedZones[u]
     /\ issues[id].assignedTo # u)
      => /\ ~canAssignIssue(u, issues[id])
         /\ \A st \in Statuses : ~canUpdateStatus(u, issues[id], st)
         /\ ~hasIssueAccess(u, issues[id])
         /\ ~canAddWorkProof(u, issues[id])

(* C6: a citizen's assign, reassign or escalate request is rejected and   *)
(* leaves the issue unchanged.                                             *)
C6_CitizenNeverAssigns ==
  [][(/\ res'.op \in {"assign", "reassign", "escalate"}
      /\ role[res'.user] = "citizen")
       => (res'.code = 403 /\ issues' = issues)]_vars

(* A citizen asked to assign an existing issue and was refused. *)
C6_Witness ==
  /\ res.op = "assign" /\ res.user = "c1" /\ res.code = 403
  /\ Len(issues) = 1

(* C7: a citizen's status update is accepted only from the reporter and   *)
(* only to pending_verification or reopened; no citizen status request     *)
(* changes an issue otherwise.                                             *)
C7_CitizenStatusLimited ==
  [][(res'.op = "status" /\ role[res'.user] = "citizen")
       => /\ \A id \in DOMAIN issues :
               \/ issues'[id] = issues[id]
               \/ /\ issues[id].reportedBy = res'.user
                  /\ issues'[id].status \in {"pending_verification", "reopened"}
          /\ res'.code = 200 =>
               \E id \in DOMAIN issues : issues'[id] # issues[id]]_vars

(* The reporting citizen moved the issue to pending_verification. *)
C7_Witness ==
  /\ res.op = "status" /\ res.user = "c1" /\ res.code = 200
  /\ issues[1].reportedBy = "c1"
  /\ issues[1].status = "pending_verification"

(* C8: for a low_admin, status update and comment are permitted iff        *)
(* assignee or zone; assign is permitted iff assignee, zone or department  *)
(* match.                                                                  *)
C8_LowAdminRule ==
  \A id \in DOMAIN issues, u \in Users :
    role[u] = "low_admin" =>
      LET issue == issues[id]
          mine == issue.assignedTo = u
          zone == issue.zone \in assignedZones[u]
          dept == department[u] = issue.assignedDepartment
      IN /\ \A st \in Statuses : canUpdateStatus(u, issue, st) <=> (mine \/ zone)
         /\ hasIssueAccess(u, issue) <=> (mine \/ zone)
         /\ canAssignIssue(u, issue) <=> (mine \/ zone \/ dept)

(* C9: work-proof upload succeeds only for a high_admin or the low_admin   *)
(* who is the assignee; every other actor is rejected and workProof is     *)
(* unchanged.                                                              *)
C9_MayUpload(u, issue) ==
  \/ role[u] = "high_admin"
  \/ role[u] = "low_admin" /\ issue.assignedTo = u

C9_WorkProofRestricted ==
  [][res'.op = "work-proof"
       => /\ res'.code = 200 =>
               \E id \in DOMAIN issues : C9_MayUpload(res'.user, issues[id])
          /\ (\A id \in DOMAIN issues : ~C9_MayUpload(res'.user, issues[id]))
               => /\ res'.code # 200
                  /\ \A id \in DOMAIN issues :
                       issues'[id].workProof = issues[id].workProof]_vars

(* The assigned low_admin uploaded one file. *)
C9_Witness ==
  /\ res.op = "work-proof" /\ res.code = 200
  /\ role[res.user] = "low_admin"
  /\ issues[1].workProof = <<[uploadedBy |-> res.user]>>

(* C10: a stored comment of a citizen is never internal; a stored comment  *)
(* is internal only if its author is an admin and the request asked for it.*)
C10_StoredFlags ==
  \A id \in DOMAIN issues :
    \A k \in DOMAIN issues[id].comments :
      LET c == issues[id].comments[k]
      IN /\ role[c.author] = "citizen" => ~c.isInternal
         /\ c.isInternal => role[c.author] \in Admins

C11_AssignedTogether ==
  \A id \in DOMAIN issues :
    (issues[id].assignedTo # NoUser) <=> issues[id].assignedAt

(* A manual assignment of an issue that auto-assignment left unassigned. *)
C11_Witness ==
  /\ res.op = "assign" /\ res.code = 200
  /\ issues[1].zone = "ZB"
  /\ issues[1].assignedTo # NoUser /\ issues[1].assignedAt

IsPrefix(s, t) ==
  /\ Len(s) <= Len(t)
  /\ \A k \in DOMAIN s : t[k] = s[k]

Newest == issues[Len(issues)]

NoteTypes(notes) == {notes[k].type : k \in DOMAIN notes}

(* C13: after auto-assignment assigned an admin to a new issue, its        *)
(* statusHistory holds one entry, with status in_progress.                 *)
C13_AutoAssignThroughWorkflow ==
  (res.op = "create" /\ Newest.assignedTo # NoUser)
    => Newest.statusHistory = <<[status |-> "in_progress"]>>

(* The users the claim calls eligible for a zone. *)
C14_Eligible(zone) ==
  {u \in Users :
     role[u] = "low_admin" /\ isActive[u] /\ zone \in assignedZones[u]}

(* C14: when an issue is created and an active low_admin has its zone,     *)
(* the issue is assigned to such a user, with that user's department, and  *)
(* its status is in_progress.                                              *)
C14_AssignsEligibleAdmin ==
  (res.op = "create" /\ C14_Eligible(Newest.zone) # {})
    => /\ Newest.assignedTo \in C14_Eligible(Newest.zone)
       /\ Newest.assignedDepartment = department[Newest.assignedTo]
       /\ Newest.status = "in_progress"

(* An issue of zone ZA was created and given to l2. *)
C14_Witness ==
  /\ res.op = "create" /\ res.code = 201
  /\ Newest.zone = "ZA" /\ Newest.assignedTo = "l2"
  /\ Newest.status = "in_progress"

(* C16: when an issue is created and no active low_admin has its zone, it  *)
(* stays unassigned and pending, no issue_assigned notification is         *)
(* created, and the request succeeds with 201.                             *)
C16_NoAdminStaysPending ==
  (res.op = "create" /\ C14_Eligible(Newest.zone) = {})
    => /\ Newest.assignedTo = NoUser
       /\ ~Newest.assignedAt
       /\ Newest.status = "pending"
       /\ "issue_assigned" \notin NoteTypes(created)
       /\ res.code = 201

(* An issue of zone ZB, which no low_admin covers, was created. *)
C16_Witness ==
  /\ res.op = "create" /\ res.code = 201
  /\ Newest.zone = "ZB" /\ Newest.assignedTo = NoUser
  /\ created # <<>>


(* The issues of a collection that are assigned to u and not yet closed. *)
OpenAssigned(u, coll) ==
  Cardinality({id \in DOMAIN coll :
                 coll[id].assignedTo = u /\ coll[id].status # "verified_solved"})

(* C15: when POST / auto-assigns the new issue, no eligible admin of its   *)
(* zone had strictly fewer open assigned issues than the admin chosen.     *)
C15_FewestOpenIssues ==
  [][(res'.op = "create" /\ Len(issues') = Len(issues) + 1
        /\ issues'[Len(issues')].assignedTo # NoUser)
       => LET new == issues'[Len(issues')]
          IN \A u \in C14_Eligible(new.zone) :
               OpenAssigned(u, issues) >= OpenAssigned(new.assignedTo, issues)]_vars


Recipients(notes) == {notes[k].recipient : k \in DOMAIN notes}

HighAdmins == {u \in Users : role[u] = "high_admin"}

(* C17: whenever PUT /:id/status or admin escalate-issue moves an issue to *)
(* escalated, the notifications created have a record for every high_admin *)
(* and, if the issue has an assignee, one for the assignee, all of         *)
(* priority high.                                                          *)
C17_EscalationNotifies ==
  [][\A id \in DOMAIN issues :
       (res'.op \in {"status", "escalate"} /\ res'.code = 200
          /\ issues[id].status # "escalated"
          /\ issues'[id].status = "escalated")
         => /\ HighAdmins \subseteq Recipients(created')
            /\ issues'[id].assignedTo # NoUser
                 => issues'[id].assignedTo \in Recipients(created')
            /\ \A k \in DOMAIN created' : created'[k].priority = "high"]_vars


(* C18: whenever PUT /:id/assign or admin reassign-issue gives an issue to *)
(* admin Y, a record of type issue_assigned addressed to Y is created; if  *)
(* the issue was assigned to a different admin X, a separate record        *)
(* addressed to X is created too, and otherwise the record for Y is the    *)
(* only one.                                                               *)
C18_ReassignNotifiesBoth ==
  [][\A id \in DOMAIN issues :
       (res'.op \in {"assign", "reassign"} /\ res'.code = 200
          /\ issues'[id] # issues[id])
         => LET X == issues[id].assignedTo
                Y == issues'[id].assignedTo
                forY == {k \in DOMAIN created' :
                           /\ created'[k].recipient = Y
                           /\ created'[k].type = "issue_assigned"}
                forX == {k \in DOMAIN created' :
                           /\ created'[k].recipient = X
                           /\ created'[k].type # "issue_assigned"}
            IN IF X # NoUser /\ X # Y
                 THEN /\ Cardinality(forY) = 1
                      /\ Cardinality(forX) = 1
                      /\ Len(created') = 2
                 ELSE /\ Cardinality(forY) = 1
                      /\ Len(created') = 1]_vars

(* C19: every notification record created for an event on an issue of      *)
(* priority urgent has notification priority high.                         *)
C19_UrgentAlwaysHigh ==
  \A k \in DOMAIN created :
    issues[created[k].relatedIssue].priority = "urgent"
      => created[k].priority = "high"


(* C20: a successful PUT /:id/status notifies exactly the reporter when    *)
(* the status becomes in_progress or verified_solved; the reporter and     *)
(* every high_admin, the admins' records with priority high, when it       *)
(* becomes pending_verification; and exactly the assignee, or nobody if    *)
(* the issue is unassigned, when it becomes reopened.                      *)
C20_StatusRecipients ==
  [][\A id \in DOMAIN issues :
       (res'.op = "status" /\ res'.code = 200 /\ issues'[id] # issues[id])
         => LET i == issues'[id]
                R == Recipients(created')
            IN /\ i.status \in {"in_progress", "verified_solved"}
                    => R = {i.reportedBy}
               /\ i.status = "pending_verification"
                    => /\ R = {i.reportedBy} \cup HighAdmins
                       /\ \A k \in DOMAIN created' :
                            created'[k].recipient \in HighAdmins
                              => created'[k].priority = "high"
               /\ i.status = "reopened"
                    => IF i.assignedTo # NoUser
                         THEN R = {i.assignedTo}
                         ELSE created' = <<>>]_vars

(* An unassigned issue was reopened and nobody was notified. *)
C20_Witness ==
  /\ res.op = "status" /\ res.code = 200
  /\ issues[1].status = "reopened" /\ issues[1].assignedTo = NoUser
  /\ created = <<>>

(* An assigned issue was verified and its reporter notified. *)
C20_WitnessVerified ==
  /\ res.op = "status" /\ res.code = 200
  /\ issues[1].status = "verified_solved" /\ issues[1].assignedTo # NoUser
  /\ Recipients(created) = {issues[1].reportedBy}


(* The reporter of an issue and, if there is one, its assignee. *)
Participants(issue) ==
  {issue.reportedBy} \cup
    (IF issue.assignedTo # NoUser THEN {issue.assignedTo} ELSE {})

(* C21: a successful POST /:id/comments creates comment_added records for  *)
(* the participants of the issue only, exactly one for each participant,   *)
(* also when the reporter is the assignee.                                 *)
C21_OneRecordPerParticipant ==
  [][\A id \in DOMAIN issues :
       (res'.op = "comment" /\ res'.code = 200 /\ issues'[id] # issues[id])
         => /\ Recipients(created') = Participants(issues'[id])
            /\ \A k \in DOMAIN created' : created'[k].type = "comment_added"
            /\ \A u \in Participants(issues'[id]) :
                 Cardinality({k \in DOMAIN created' :
                                created'[k].recipient = u}) = 1]_vars


Stamps(issue) ==
  <<issue.resolvedAt, issue.verifiedAt, issue.escalatedAt>>

(* C22: after every step an issue in pending_verification has resolvedAt   *)
(* set, one in verified_solved has verifiedAt set and one in escalated has *)
(* escalatedAt set; a step that moves an issue to any other status leaves  *)
(* the three timestamps as they were.                                      *)
C22_StampedStates ==
  [][/\ \A id \in DOMAIN issues' :
          LET i == issues'[id]
          IN /\ i.status = "pending_verification" => i.resolvedAt
             /\ i.status = "verified_solved" => i.verifiedAt
             /\ i.status = "escalated" => i.escalatedAt
     /\ \A id \in DOMAIN issues :
          (/\ issues'[id] # issues[id]
           /\ issues'[id].status \notin
                {"pending_verification", "verified_solved", "escalated"})
            => Stamps(issues'[id]) = Stamps(issues[id])]_vars

(* Admin escalate-issue moved an issue to escalated and stamped it. *)
C22_Witness ==
  /\ res.op = "escalate" /\ res.code = 200
  /\ issues[1].status = "escalated" /\ issues[1].escalatedAt
  /\ ~issues[1].resolvedAt /\ ~issues[1].verifiedAt


(* C23: PUT /:id/status asking verified_solved for an issue in pending is  *)
(* answered 400 (invalid transition) whatever the role of the caller, and  *)
(* the issue is left as it was.                                            *)
C23_PendingToSolvedInvalid ==
  [][\A user \in Users, id \in IssueIds :
       (/\ id \in DOMAIN issues
        /\ issues[id].status = "pending"
        /\ PutStatus(user, id, "verified_solved"))
         => /\ res'.code = 400
            /\ issues' = issues]_vars


(* C24: an issue that has been pending or in_progress for five days or     *)
(* more since its assignment is eventually escalated, with no escalate or  *)
(* status request from any user.                                           *)
C24_OverdueEscalated ==
  (1 \in DOMAIN issues /\ shouldEscalate(issues[1], assignedOn[1], now))
    ~> (1 \in DOMAIN issues /\ issues[1].status = "escalated")


(* C25: every step that changes the status of an issue, the auto-assigning *)
(* creation included, creates at least one notification record addressed   *)
(* to the reporter of the issue.                                           *)
C25_ReporterAlwaysNotified ==
  [][/\ \A id \in DOMAIN issues :
          issues'[id].status # issues[id].status
            => issues'[id].reportedBy \in Recipients(created')
     /\ (Len(issues') > Len(issues)
           /\ issues'[Len(issues')].status # "pending")
          => issues'[Len(issues')].reportedBy \in Recipients(created')]_vars


(* The statuses a sequence of table transitions leads to from those of S. *)
RECURSIVE ReachableFrom(_)
ReachableFrom(S) ==
  LET N == S \cup UNION {transitions[s] : s \in S}
  IN IF N = S THEN S ELSE ReachableFrom(N)

(* C26: an issue document starts in pending; the table allows at least one *)
(* transition from each of the six statuses, verified_solved to reopened   *)
(* among them; and each of the six statuses is reachable from pending.     *)
C26_NoTerminalStatus ==
  \A id \in DOMAIN issues :
    LET i == issues[id]
    IN /\ NewIssue(i.zone, i.priority, i.reportedBy).status = "pending"
       /\ (i.statusHistory = <<>> /\ i.assignedTo = NoUser)
            => i.status = "pending"
       /\ transitions[i.status] # {}
       /\ \A s \in Statuses :
            /\ transitions[s] # {}
            /\ s \in ReachableFrom({"pending"})
       /\ "reopened" \in transitions["verified_solved"]

(* A verified issue was reopened through PUT /:id/status. *)
C26_Witness ==
  /\ res.op = "status" /\ res.code = 200
  /\ issues[1].status = "reopened"
  /\ Len(issues[1].statusHistory) = 3
  /\ issues[1].statusHistory[2].status = "verified_solved"


(* C27: a PUT /:id/status request that passed its checks on the document   *)
(* it loaded succeeds when it saves, whatever was saved in between, and    *)
(* the stored status is then the one it asked for: the later save wins.    *)
C27_LastWriterWins ==
  [][\A slot \in Slots :
       SaveStatus(slot)
         => /\ res'.code = 200
            /\ issues'[loaded[slot].id].status = loaded[slot].status
            /\ Last(issues'[loaded[slot].id].statusHistory).status
                 = loaded[slot].status]_vars

(* Two requests loaded the issue in the same status and both saved: the    *)
(* history holds two changes of which the second is no table transition    *)
(* from the first.                                                         *)
C27_Witness ==
  /\ res.op = "status" /\ res.code = 200
  /\ \A slot \in Slots : loaded[slot] = NoRequest
  /\ Len(issues[1].statusHistory) = 2
  /\ issues[1].statusHistory[2].status
       \notin transitions[issues[1].statusHistory[1].status]
  /\ issues[1].status = issues[1].statusHistory[2].status


AdminUsers == {u \in Users : role[u] \in Admins}

(* C28: after every step assignedTo is unset or names a low_admin or a     *)
(* high_admin; PUT /:id/assign and admin reassign-issue naming a citizen   *)
(* or an unknown user change nothing and, once the caller is let through   *)
(* to the issue, answer 400; auto-assignment picks low_admins only.        *)
C28_AssigneeIsAdmin ==
  [][/\ \A id \in DOMAIN issues' :
          issues'[id].assignedTo \in AdminUsers \cup {NoUser}
     /\ res'.op \in {"assign", "reassign"}
          => \A id \in IssueIds, target \in Targets \ AdminUsers :
               (\/ \E dept \in RequestedDepts :
                     PutAssign(res'.user, id, target, dept)
                \/ ReassignIssue(res'.user, id, target))
                 => /\ issues' = issues
                    /\ res'.code \in {400, 403, 404}
                    /\ (role[res'.user] = "high_admin" /\ id \in DOMAIN issues)
                         => res'.code = 400
     /\ Len(issues') > Len(issues)
          => \/ issues'[Len(issues')].assignedTo = NoUser
             \/ role[issues'[Len(issues')].assignedTo] = "low_admin"]_vars

(* A high_admin's assignment of a stored issue was answered 400. *)
C28_Witness ==
  /\ res.op = "assign" /\ res.code = 400 /\ res.user = "h1"
  /\ issues # <<>>
  /\ issues[1].assignedTo \in AdminUsers \cup {NoUser}


NotificationOps == {"read", "read-all", "delete", "delete-all"}

NotOf(user, notes) == SelectSeq(notes, LAMBDA x : x.recipient # user)

(* C29: PUT /:id/read and DELETE /:id by a user who is not the recipient   *)
(* are answered 403 and change nothing; every notification route leaves    *)
(* the notifications of the other users as they were; and a notification   *)
(* that is read has readAt set.                                            *)
C29_RecipientOnly ==
  [][/\ \A k \in DOMAIN created' : created'[k].isRead => created'[k].readAt
     /\ res'.op \in NotificationOps
          => /\ NotOf(res'.user, created') = NotOf(res'.user, created)
             /\ \A n \in DOMAIN created :
                  (/\ created[n].recipient # res'.user
                   /\ \/ PutRead(res'.user, n)
                      \/ DeleteNotification(res'.user, n))
                    => /\ res'.code = 403
                       /\ created' = created
             /\ res'.op = "read-all"
                  => \A k \in DOMAIN created' :
                       created'[k].recipient = res'.user => created'[k].isRead]_vars

(* A user's attempt to mark another user's notification was refused, after *)
(* some notification had been read by its recipient.                       *)
C29_Witness ==
  /\ res.op = "read" /\ res.code = 403
  /\ \E k \in DOMAIN created : created[k].isRead /\ created[k].readAt
  /\ \E k \in DOMAIN created :
       ~created[k].isRead /\ created[k].recipient # res.user


(* Whether the user may comment on the issue or update its status. *)
MayMutate(user, issue) ==
  \/ hasIssueAccess(user, issue)
  \/ \E status \in Statuses : canUpdateStatus(user, issue, status)

(* C30: after every step, a user who may comment on a stored issue or      *)
(* update its status passes the access check of GET /:id for it and the    *)
(* issue matches the role filter of GET / for that user; the responses of  *)
(* the two routes agree with that.                                         *)
C30_MutateImpliesView ==
  [][\A id \in DOMAIN issues', user \in Users :
       MayMutate(user, issues'[id])
         => /\ getIssue(user, issues'[id]) = 200
            /\ \A stripped \in BOOLEAN : roleFilter(user, issues'[id], stripped)
            /\ (res'.user = user /\ res'.op = "get") => res'.code = 200
            /\ (res'.user = user /\ res'.op = "list") => id \in res'.ids]_vars

(* Low_admin l2 was shown an issue of its zone that is assigned to l1. *)
C30_Witness ==
  /\ res.op = "get" /\ res.code = 200 /\ res.user = "l2"
  /\ issues[1].assignedTo = "l1"
  /\ hasIssueAccess("l2", issues[1])
  /\ issues[1].assignedDepartment # department["l2"]

====
